---------------------------- MODULE Spec2Model ----------------------------
(***************************************************************************)
(* CameraColorPicker (src/unnamed/part_000, lines 280-636): a React        *)
(* component that samples two pixels of a live camera feed on a 100 ms     *)
(* interval, lets the user drag the two sampling points, and copies a hex  *)
(* value to the clipboard with a 2 s confirmation flag.                    *)
(*                                                                         *)
(* The component runs on the browser's single-threaded event loop: each    *)
(* action below is one task (an event handler, a timer callback, or the    *)
(* continuation of an await) together with the React render and effects it *)
(* causes: React 18 commits the render of a click handler and runs its     *)
(* effect cleanups before the next task.                                   *)
(*                                                                         *)
(* Time is discrete: timers hold the milliseconds left until they are due, *)
(* and Advance(q) lets q milliseconds pass.  A due timeout fires before    *)
(* more time passes; other events may still be handled before it.          *)
(*                                                                         *)
(* Percentages are exact rationals [num, den]; the rounding of IEEE        *)
(* doubles is not modelled.                                                *)
(***************************************************************************)
EXTENDS Integers, Sequences, FiniteSets, TLC

(* ------------------------------ bounds -------------------------------- *)

\* camera requests that may be awaiting the platform's answer at once
MaxPending == 2
\* streams the platform grants in one behaviour
MaxStreams == 2
\* tracks of a granted stream
MaxTracks == 2
\* clipboard writes that may be awaiting the platform's answer at once
MaxPendingCopies == 2
\* 2-second clear timeouts that may be scheduled at once
MaxCopyTimers == 2

(* ------------------------- program constants -------------------------- *)

\* setInterval(updateColors, 100)
SamplingPeriod == 100
\* setTimeout(() => setCopiedColor(null), 2000)
CopiedWindow == 2000

\* null, for a string state
None == "null"
\* streamRef.current and video.srcObject when null; streams are 1, 2, ...
NoStream == 0
\* copiedColor when null; a hex value is a non-empty sequence of characters
NoColor == <<>>
\* no interval is set
NoTimer == [armed |-> FALSE]
\* no pixel has been read yet
NoRead == [top |-> <<>>, bottom |-> <<>>]

(* ------------------------ environment inputs -------------------------- *)

\* container.getBoundingClientRect(): a box of positive size
Rect == [left |-> 10, top |-> 20, width |-> 30, height |-> 20]
\* (e.clientX, e.clientY) of a mousemove: left/above the box, inside it,
\* right of it, below it
PointerPositions == {<<0, 0>>, <<20, 50>>, <<45, 25>>}
\* (video.videoWidth, video.videoHeight) once the stream is negotiated
FrameSizes == {<<1280, 720>>}
\* (r, g, b) bytes a pixel of the frame may hold
PixelValues == {<<255, 5, 16>>, <<18, 171, 0>>}

\* values a colour channel is drawn from while another takes every value
ChannelSamples == {0, 5, 16, 255}
\* a byte of imageData.data (a Uint8ClampedArray)
Bytes == 0..255
\* (r, g, b) bytes rgbToHex is applied to: every value of each channel,
\* with the other two channels at each pair of samples
HexInputs ==
    {<<r, g, b>> : r \in Bytes, g \in ChannelSamples, b \in ChannelSamples}
        \cup {<<r, g, b>> : r \in ChannelSamples, g \in Bytes, b \in ChannelSamples}
        \cup {<<r, g, b>> : r \in ChannelSamples, g \in ChannelSamples, b \in Bytes}

(* --------------------------- pure functions --------------------------- *)

HexDigits == <<"0", "1", "2", "3", "4", "5", "6", "7", "8", "9",
               "a", "b", "c", "d", "e", "f">>

RECURSIVE ToString16(_)
\* Number.prototype.toString(16) of a non-negative integer
ToString16(x) ==
    IF x < 16 THEN <<HexDigits[x + 1]>>
    ELSE ToString16(x \div 16) \o <<HexDigits[(x % 16) + 1]>>

RECURSIVE PadStart(_, _, _)
\* String.prototype.padStart(n, c)
PadStart(s, n, c) == IF Len(s) >= n THEN s ELSE PadStart(<<c>> \o s, n, c)

\* faulty variant: the channels are not padded to two digits
rgbToHexUnpadded(r, g, b) ==
    <<"#">> \o ToString16(r) \o ToString16(g) \o ToString16(b)

\* rgbToHex: '#' + the three channels, each toString(16).padStart(2, '0')
rgbToHex(r, g, b) ==
    <<"#">> \o PadStart(ToString16(r), 2, "0")
            \o PadStart(ToString16(g), 2, "0")
            \o PadStart(ToString16(b), 2, "0")

\* { hex: '#000000', rgb: { r: 0, g: 0, b: 0 } }
BlackColor ==
    [hex |-> <<"#", "0", "0", "0", "0", "0", "0">>, rgb |-> [r |-> 0, g |-> 0, b |-> 0]]

\* the integer n as a percentage
Pct(n) == [num |-> n, den |-> 1]

\* ((client - origin) / extent) * 100
ToPercent(client, origin, extent) == [num |-> (client - origin) * 100, den |-> extent]

\* Math.min(100, x)
Min100(x) == IF x.num > 100 * x.den THEN Pct(100) ELSE x

\* Math.max(0, x)
Max0(x) == IF x.num < 0 THEN Pct(0) ELSE x

\* faulty variant: the upper clamp is missing
ClampNoUpper(x) == Max0(x)

\* Math.max(0, Math.min(100, x))
Clamp(x) == Max0(Min100(x))

\* faulty variant: Math.round in place of Math.floor
ToPixelRounded(p, extent) == (2 * p.num * extent + p.den * 100) \div (2 * p.den * 100)

\* Math.floor((p / 100) * extent), for p >= 0
ToPixel(p, extent) == (p.num * extent) \div (p.den * 100)

\* ctx.getImageData(x, y, 1, 1).data on a w x h canvas holding a frame whose
\* pixel there is px: outside the canvas the data is transparent black
ImageData(x, y, w, h, px) ==
    IF 0 <= x /\ x < w /\ 0 <= y /\ y < h THEN px ELSE <<0, 0, 0>>

\* what getColorAtPoint returns when the video, the canvas or the 2d context
\* is missing: { hex: '#000000', rgb: { r: 0, g: 0, b: 0 } }
FallbackColor ==
    [hex |-> <<"#", "0", "0", "0", "0", "0", "0">>, rgb |-> [r |-> 0, g |-> 0, b |-> 0]]

\* faulty variant: the hex string is built from the channels in the order b, g, r
getColorAtPointSwapped(x, y, w, h, px) ==
    LET data == ImageData(x, y, w, h, px)
    IN  [hex |-> rgbToHex(data[3], data[2], data[1]),
         rgb |-> [r |-> data[1], g |-> data[2], b |-> data[3]]]

\* getColorAtPoint once video, canvas and 2d context exist
getColorAtPoint(x, y, w, h, px) ==
    LET data == ImageData(x, y, w, h, px)
    IN  [hex |-> rgbToHex(data[1], data[2], data[3]),
         rgb |-> [r |-> data[1], g |-> data[2], b |-> data[3]]]

(* ------------------------------- state -------------------------------- *)

VARIABLES
    mounted,        \* the component is mounted (videoRef, canvasRef, containerRef set)
    isActive,       \* useState(false)
    streamRef,      \* streamRef.current: NoStream or a stream
    granted,        \* streams the platform has granted so far: 1..granted
    running,        \* running[s]: the tracks of stream s that are not stopped
    pendingStarts,  \* getUserMedia requests awaiting their answer
    staleStarts,    \* those of them issued before the latest stopCamera
    srcObject,      \* video.srcObject
    videoWidth,     \* video.videoWidth
    videoHeight,    \* video.videoHeight
    canvasWidth,    \* canvas.width
    canvasHeight,   \* canvas.height
    lastRead,       \* arguments of the getImageData calls of the last tick
    topColor,
    bottomColor,
    topPoint,
    bottomPoint,
    isDragging,     \* None, "top" or "bottom"
    interval,       \* the setInterval timer and the updateColors closure it calls
    copiedColor,
    pendingCopies,  \* hex values whose clipboard write awaits its answer
    copyTimers,     \* the scheduled 2 s timeouts, oldest first
    lastWriteText,  \* how the last settled clipboard write ended
    lastToast       \* title of the last notification emitted

vars == <<mounted, isActive, streamRef, granted, running, pendingStarts,
          staleStarts, srcObject, videoWidth, videoHeight, canvasWidth,
          canvasHeight, lastRead, topColor, bottomColor, topPoint, bottomPoint,
          isDragging, interval, copiedColor, pendingCopies, copyTimers,
          lastWriteText, lastToast>>

captureVars == <<streamRef, granted, running, pendingStarts, staleStarts, srcObject>>
videoVars == <<videoWidth, videoHeight>>
canvasVars == <<canvasWidth, canvasHeight, lastRead>>
colorVars == <<topColor, bottomColor>>
pointVars == <<topPoint, bottomPoint>>
copyVars == <<copiedColor, pendingCopies, copyTimers, lastWriteText>>

Streams == 1..MaxStreams

Init ==
    /\ mounted = TRUE
    /\ isActive = FALSE
    /\ streamRef = NoStream
    /\ granted = 0
    /\ running = [s \in Streams |-> {}]
    /\ pendingStarts = 0
    /\ staleStarts = 0
    /\ srcObject = NoStream
    /\ videoWidth = 0
    /\ videoHeight = 0
    /\ canvasWidth = 300
    /\ canvasHeight = 150
    /\ lastRead = NoRead
    /\ topColor = BlackColor
    /\ bottomColor = BlackColor
    /\ topPoint = [x |-> Pct(50), y |-> Pct(20)]
    /\ bottomPoint = [x |-> Pct(50), y |-> Pct(80)]
    /\ isDragging = None
    /\ interval = NoTimer
    /\ copiedColor = NoColor
    /\ pendingCopies = <<>>
    /\ copyTimers = <<>>
    /\ lastWriteText = None
    /\ lastToast = None

(* ------------------------------ effects ------------------------------- *)

\* a fresh interval calling the updateColors of the render that created it
NewInterval(active, top, bottom) ==
    [armed |-> TRUE, remaining |-> SamplingPeriod,
     isActive |-> active, topPoint |-> top, bottomPoint |-> bottom]

\* faulty variant: the effect depends on isActive only, so a running interval
\* keeps the updateColors it was set with
SamplingEffectStaleClosure(depsChanged, active, top, bottom) ==
    IF ~depsChanged THEN interval
    ELSE IF ~active THEN NoTimer
    ELSE IF interval.armed THEN interval
    ELSE NewInterval(active, top, bottom)

\* faulty variant: the effect returns no cleanup when capture stops
SamplingEffectNoCleanup(depsChanged, active, top, bottom) ==
    IF ~depsChanged THEN interval
    ELSE IF ~active THEN interval
    ELSE NewInterval(active, top, bottom)

\* useEffect(..., [updateColors, isActive]) after a render: when a dependency
\* changed, the cleanup clears the old interval and, if active, a new one is set
SamplingEffect(depsChanged, active, top, bottom) ==
    IF ~depsChanged THEN interval
    ELSE IF ~active THEN NoTimer
    ELSE NewInterval(active, top, bottom)

\* useEffect(..., [isDragging, handleMouseMove, handleMouseUp]): the document
\* listeners exist exactly while isDragging is set
DragListenersAttached == mounted /\ isDragging # None

(* ------------------------------ capture ------------------------------- *)

\* startCamera up to its await; the button calls it while isActive is false
startCamera ==
    /\ mounted
    /\ ~isActive
    /\ pendingStarts < MaxPending
    /\ pendingStarts' = pendingStarts + 1
    /\ UNCHANGED <<mounted, isActive, streamRef, granted, running, staleStarts,
                   srcObject, videoVars, canvasVars, colorVars, pointVars,
                   isDragging, interval, copyVars, lastToast>>

\* the await of one pending startCamera call ends; stale tells whether that
\* call was made before the latest stopCamera
AwaitEnds(stale) ==
    /\ pendingStarts > 0
    /\ IF stale THEN staleStarts > 0 ELSE pendingStarts > staleStarts
    /\ pendingStarts' = pendingStarts - 1
    /\ staleStarts' = IF stale THEN staleStarts - 1 ELSE staleStarts

\* startCamera after getUserMedia resolved with a stream of n tracks
startCameraGranted(n) ==
    /\ \E stale \in BOOLEAN : AwaitEnds(stale)
    /\ granted < MaxStreams
    /\ LET stream == granted + 1
       IN  /\ granted' = stream
           /\ running' = [running EXCEPT ![stream] = 1..n]
           /\ streamRef' = stream
           /\ IF mounted
              THEN /\ srcObject' = stream
                   /\ videoWidth' = 0
                   /\ videoHeight' = 0
                   /\ isActive' = TRUE
                   /\ interval' = SamplingEffect(~isActive, TRUE, topPoint, bottomPoint)
              ELSE UNCHANGED <<srcObject, videoVars, isActive, interval>>
    /\ lastToast' = "Camera Started"
    /\ UNCHANGED <<mounted, canvasVars, colorVars, pointVars, isDragging, copyVars>>

\* faulty variant: setIsActive(true) is reached after the catch as well
startCameraRejectedActivates ==
    /\ \E stale \in BOOLEAN : AwaitEnds(stale)
    /\ lastToast' = "Camera Error"
    /\ isActive' = (mounted \/ isActive)
    /\ interval' = IF mounted
                   THEN SamplingEffect(~isActive, TRUE, topPoint, bottomPoint)
                   ELSE interval
    /\ UNCHANGED <<mounted, streamRef, granted, running, srcObject,
                   videoVars, canvasVars, colorVars, pointVars, isDragging,
                   copyVars>>

\* startCamera after getUserMedia rejected
startCameraRejected ==
    /\ \E stale \in BOOLEAN : AwaitEnds(stale)
    /\ lastToast' = "Camera Error"
    /\ UNCHANGED <<mounted, isActive, streamRef, granted, running, srcObject,
                   videoVars, canvasVars, colorVars, pointVars, isDragging,
                   interval, copyVars>>

\* the video element learns the frame size of the stream it plays
loadedMetadata(size) ==
    /\ mounted
    /\ srcObject # NoStream
    /\ running[srcObject] # {}
    /\ videoWidth = 0
    /\ videoWidth' = size[1]
    /\ videoHeight' = size[2]
    /\ UNCHANGED <<mounted, isActive, captureVars, canvasVars, colorVars,
                   pointVars, isDragging, interval, copyVars, lastToast>>

\* faulty variant: only getTracks()[0] is stopped
StopFirstTrackOnly(stream) ==
    [running EXCEPT ![stream] = running[stream] \ {1}]

\* streamRef.current.getTracks().forEach(track => track.stop())
StopTracks(stream) ==
    [running EXCEPT ![stream] = {}]

\* faulty variant: stopping also resets both colour samples
stopCameraResetsColors ==
    /\ mounted
    /\ isActive
    /\ IF streamRef # NoStream
       THEN /\ running' = StopTracks(streamRef)
            /\ streamRef' = NoStream
       ELSE UNCHANGED <<running, streamRef>>
    /\ isActive' = FALSE
    /\ interval' = SamplingEffect(TRUE, FALSE, topPoint, bottomPoint)
    /\ lastToast' = "Camera Stopped"
    /\ staleStarts' = pendingStarts
    /\ topColor' = BlackColor
    /\ bottomColor' = BlackColor
    /\ UNCHANGED <<mounted, granted, pendingStarts, srcObject, videoVars,
                   canvasVars, pointVars, isDragging, copyVars>>

\* faulty variant: setIsActive(false) is missing
stopCameraKeepsActive ==
    /\ mounted
    /\ isActive
    /\ IF streamRef # NoStream
       THEN /\ running' = StopTracks(streamRef)
            /\ streamRef' = NoStream
       ELSE UNCHANGED <<running, streamRef>>
    /\ lastToast' = "Camera Stopped"
    /\ staleStarts' = pendingStarts
    /\ UNCHANGED <<mounted, isActive, interval, granted, pendingStarts, srcObject,
                   videoVars, canvasVars, colorVars, pointVars, isDragging,
                   copyVars>>

\* stopCamera; the button calls it while isActive is true
stopCamera ==
    /\ mounted
    /\ isActive
    /\ IF streamRef # NoStream
       THEN /\ running' = StopTracks(streamRef)
            /\ streamRef' = NoStream
       ELSE UNCHANGED <<running, streamRef>>
    /\ isActive' = FALSE
    /\ interval' = SamplingEffect(TRUE, FALSE, topPoint, bottomPoint)
    /\ lastToast' = "Camera Stopped"
    /\ staleStarts' = pendingStarts
    /\ UNCHANGED <<mounted, granted, pendingStarts, srcObject, videoVars,
                   canvasVars, colorVars, pointVars, isDragging, copyVars>>

\* the component is removed: the effect cleanups run, the refs are cleared
unmount ==
    /\ mounted
    /\ mounted' = FALSE
    /\ interval' = NoTimer
    /\ UNCHANGED <<isActive, captureVars, videoVars, canvasVars, colorVars,
                   pointVars, isDragging, copyVars, lastToast>>

(* ----------------------------- dragging ------------------------------- *)

\* handleMouseDown(point): onMouseDown of a marker, rendered while isActive
handleMouseDown(point) ==
    /\ mounted
    /\ isActive
    /\ isDragging' = point
    /\ UNCHANGED <<mounted, isActive, captureVars, videoVars, canvasVars,
                   colorVars, pointVars, interval, copyVars, lastToast>>

\* the point handleMouseMove computes from the pointer position
DraggedPoint(clientX, clientY) ==
    [x |-> Clamp(ToPercent(clientX, Rect.left, Rect.width)),
     y |-> Clamp(ToPercent(clientY, Rect.top, Rect.height))]

\* faulty variant: the position is stored in both points, whichever is dragged
handleMouseMoveBoth(clientX, clientY) ==
    /\ DragListenersAttached
    /\ LET p == DraggedPoint(clientX, clientY)
       IN  /\ topPoint' = p
           /\ bottomPoint' = p
           /\ interval' = SamplingEffect(TRUE, isActive, p, p)
    /\ UNCHANGED <<mounted, isActive, captureVars, videoVars, canvasVars,
                   colorVars, isDragging, copyVars, lastToast>>

\* handleMouseMove: the document's mousemove listener.  The new point object
\* gives updateColors a new identity, so the sampling effect runs again.
handleMouseMove(clientX, clientY) ==
    /\ DragListenersAttached
    /\ LET p == DraggedPoint(clientX, clientY)
           top == IF isDragging = "top" THEN p ELSE topPoint
           bottom == IF isDragging = "bottom" THEN p ELSE bottomPoint
       IN  /\ topPoint' = top
           /\ bottomPoint' = bottom
           /\ interval' = SamplingEffect(TRUE, isActive, top, bottom)
    /\ UNCHANGED <<mounted, isActive, captureVars, videoVars, canvasVars,
                   colorVars, isDragging, copyVars, lastToast>>

\* handleMouseUp: the document's mouseup listener
handleMouseUp ==
    /\ DragListenersAttached
    /\ isDragging' = None
    /\ UNCHANGED <<mounted, isActive, captureVars, videoVars, canvasVars,
                   colorVars, pointVars, interval, copyVars, lastToast>>

(* ----------------------------- sampling ------------------------------- *)

\* faulty variant: the tick does not test the video's dimensions
updateColorsNoSizeCheck(pxTop, pxBottom) ==
    /\ interval.armed
    /\ interval.remaining = 0
    /\ interval' = [interval EXCEPT !.remaining = SamplingPeriod]
    /\ IF mounted /\ interval.isActive
       THEN LET topX == ToPixel(interval.topPoint.x, videoWidth)
                topY == ToPixel(interval.topPoint.y, videoHeight)
                bottomX == ToPixel(interval.bottomPoint.x, videoWidth)
                bottomY == ToPixel(interval.bottomPoint.y, videoHeight)
            IN  /\ canvasWidth' = videoWidth
                /\ canvasHeight' = videoHeight
                /\ lastRead' = [top |-> <<topX, topY>>, bottom |-> <<bottomX, bottomY>>]
                /\ topColor' = getColorAtPoint(topX, topY, videoWidth, videoHeight, pxTop)
                /\ bottomColor' =
                       getColorAtPoint(bottomX, bottomY, videoWidth, videoHeight, pxBottom)
       ELSE UNCHANGED <<canvasVars, colorVars>>
    /\ UNCHANGED <<mounted, isActive, captureVars, videoVars, pointVars,
                   isDragging, copyVars, lastToast>>

\* faulty variant: only the top sample is stored by the tick
updateColorsTopOnly(pxTop, pxBottom) ==
    /\ interval.armed
    /\ interval.remaining = 0
    /\ interval' = [interval EXCEPT !.remaining = SamplingPeriod]
    /\ IF mounted /\ interval.isActive /\ videoWidth # 0 /\ videoHeight # 0
       THEN LET topX == ToPixel(interval.topPoint.x, videoWidth)
                topY == ToPixel(interval.topPoint.y, videoHeight)
                bottomX == ToPixel(interval.bottomPoint.x, videoWidth)
                bottomY == ToPixel(interval.bottomPoint.y, videoHeight)
            IN  /\ canvasWidth' = videoWidth
                /\ canvasHeight' = videoHeight
                /\ lastRead' = [top |-> <<topX, topY>>, bottom |-> <<bottomX, bottomY>>]
                /\ topColor' = getColorAtPoint(topX, topY, videoWidth, videoHeight, pxTop)
                /\ UNCHANGED bottomColor
       ELSE UNCHANGED <<canvasVars, colorVars>>
    /\ UNCHANGED <<mounted, isActive, captureVars, videoVars, pointVars,
                   isDragging, copyVars, lastToast>>

\* the interval is due and calls the updateColors it was created with; the
\* frame holds pxTop and pxBottom at the two pixels read
updateColors(pxTop, pxBottom) ==
    /\ interval.armed
    /\ interval.remaining = 0
    /\ interval' = [interval EXCEPT !.remaining = SamplingPeriod]
    /\ IF mounted /\ interval.isActive /\ videoWidth # 0 /\ videoHeight # 0
       THEN LET topX == ToPixel(interval.topPoint.x, videoWidth)
                topY == ToPixel(interval.topPoint.y, videoHeight)
                bottomX == ToPixel(interval.bottomPoint.x, videoWidth)
                bottomY == ToPixel(interval.bottomPoint.y, videoHeight)
            IN  /\ canvasWidth' = videoWidth
                /\ canvasHeight' = videoHeight
                /\ lastRead' = [top |-> <<topX, topY>>, bottom |-> <<bottomX, bottomY>>]
                /\ topColor' = getColorAtPoint(topX, topY, videoWidth, videoHeight, pxTop)
                /\ bottomColor' =
                       getColorAtPoint(bottomX, bottomY, videoWidth, videoHeight, pxBottom)
       ELSE UNCHANGED <<canvasVars, colorVars>>
    /\ UNCHANGED <<mounted, isActive, captureVars, videoVars, pointVars,
                   isDragging, copyVars, lastToast>>

\* the interval is due while canvas.getContext('2d') gives null: both calls
\* of getColorAtPoint return the fallback before the canvas is resized or read
updateColorsNoContext ==
    /\ interval.armed
    /\ interval.remaining = 0
    /\ interval' = [interval EXCEPT !.remaining = SamplingPeriod]
    /\ IF mounted /\ interval.isActive /\ videoWidth # 0 /\ videoHeight # 0
       THEN /\ topColor' = FallbackColor
            /\ bottomColor' = FallbackColor
       ELSE UNCHANGED colorVars
    /\ UNCHANGED <<mounted, isActive, captureVars, videoVars, canvasVars,
                   pointVars, isDragging, copyVars, lastToast>>

(* ----------------------------- clipboard ------------------------------ *)

\* s without its i-th element
RemoveAt(s, i) == SubSeq(s, 1, i - 1) \o SubSeq(s, i + 1, Len(s))

\* copyToClipboard(hex) up to its await; the two copy buttons, rendered while
\* isActive, pass topColor.hex and bottomColor.hex
copyToClipboard(hex) ==
    /\ mounted
    /\ isActive
    /\ hex \in {topColor.hex, bottomColor.hex}
    /\ Len(pendingCopies) < MaxPendingCopies
    /\ pendingCopies' = Append(pendingCopies, hex)
    /\ UNCHANGED <<mounted, isActive, captureVars, videoVars, canvasVars,
                   colorVars, pointVars, isDragging, interval, copiedColor,
                   copyTimers, lastWriteText, lastToast>>

\* faulty variant: the setTimeout that clears the flag is missing
copyToClipboardResolvedNoTimeout(i) ==
    /\ i \in 1..Len(pendingCopies)
    /\ Len(copyTimers) < MaxCopyTimers
    /\ pendingCopies' = RemoveAt(pendingCopies, i)
    /\ lastWriteText' = "fulfilled"
    /\ copiedColor' = IF mounted THEN pendingCopies[i] ELSE copiedColor
    /\ lastToast' = "Copied!"
    /\ UNCHANGED <<mounted, isActive, captureVars, videoVars, canvasVars,
                   colorVars, pointVars, isDragging, interval, copyTimers>>

\* copyToClipboard after writeText resolved
copyToClipboardResolved(i) ==
    /\ i \in 1..Len(pendingCopies)
    /\ Len(copyTimers) < MaxCopyTimers
    /\ pendingCopies' = RemoveAt(pendingCopies, i)
    /\ lastWriteText' = "fulfilled"
    /\ copiedColor' = IF mounted THEN pendingCopies[i] ELSE copiedColor
    /\ copyTimers' = Append(copyTimers, [remaining |-> CopiedWindow, hex |-> pendingCopies[i]])
    /\ lastToast' = "Copied!"
    /\ UNCHANGED <<mounted, isActive, captureVars, videoVars, canvasVars,
                   colorVars, pointVars, isDragging, interval>>

\* faulty variant: the catch block reports the failure, as startCamera's does
copyToClipboardRejectedNotifies(i) ==
    /\ i \in 1..Len(pendingCopies)
    /\ pendingCopies' = RemoveAt(pendingCopies, i)
    /\ lastWriteText' = "rejected"
    /\ lastToast' = "Copy Error"
    /\ UNCHANGED <<mounted, isActive, captureVars, videoVars, canvasVars,
                   colorVars, pointVars, isDragging, interval, copiedColor,
                   copyTimers>>

\* copyToClipboard after writeText rejected: the catch block only logs
copyToClipboardRejected(i) ==
    /\ i \in 1..Len(pendingCopies)
    /\ pendingCopies' = RemoveAt(pendingCopies, i)
    /\ lastWriteText' = "rejected"
    /\ UNCHANGED <<mounted, isActive, captureVars, videoVars, canvasVars,
                   colorVars, pointVars, isDragging, interval, copiedColor,
                   copyTimers, lastToast>>

\* the oldest 2 s timeout is due: () => setCopiedColor(null)
copiedTimeout ==
    /\ copyTimers # <<>>
    /\ Head(copyTimers).remaining = 0
    /\ copyTimers' = Tail(copyTimers)
    /\ copiedColor' = IF mounted THEN NoColor ELSE copiedColor
    /\ UNCHANGED <<mounted, isActive, captureVars, videoVars, canvasVars,
                   colorVars, pointVars, isDragging, interval, pendingCopies,
                   lastWriteText, lastToast>>

(* -------------------------------- time -------------------------------- *)

\* q milliseconds pass.  A timeout fires on time: none is due earlier than q.
\* An interval's callbacks do not queue up: an interval that falls due while
\* the time passes is due once.
Advance(q) ==
    /\ interval.armed \/ copyTimers # <<>>
    /\ \A i \in 1..Len(copyTimers) : copyTimers[i].remaining >= q
    /\ interval' = IF interval.armed
                   THEN [interval EXCEPT !.remaining = IF @ >= q THEN @ - q ELSE 0]
                   ELSE interval
    /\ copyTimers' = [i \in 1..Len(copyTimers) |->
                         [copyTimers[i] EXCEPT !.remaining = @ - q]]
    /\ UNCHANGED <<mounted, isActive, captureVars, videoVars, canvasVars,
                   colorVars, pointVars, isDragging, copiedColor, pendingCopies,
                   lastWriteText, lastToast>>

(* --------------------------- specifications --------------------------- *)

\* capture, dragging and sampling, in steps of half a sampling period; the
\* canvas gives a 2d context
Next ==
    \/ startCamera
    \/ \E n \in 1..MaxTracks : startCameraGranted(n)
    \/ startCameraRejected
    \/ \E size \in FrameSizes : loadedMetadata(size)
    \/ stopCamera
    \/ unmount
    \/ \E point \in {"top", "bottom"} : handleMouseDown(point)
    \/ \E pos \in PointerPositions : handleMouseMove(pos[1], pos[2])
    \/ handleMouseUp
    \/ \E pxTop, pxBottom \in PixelValues : updateColors(pxTop, pxBottom)
    \/ Advance(SamplingPeriod \div 2)

Spec == Init /\ [][Next]_vars

\* the clipboard during and after one capture session of a one-track stream,
\* in steps of a quarter of the confirmation window
NextCopy ==
    \/ (granted = 0 /\ pendingStarts = 0 /\ startCamera)
    \/ startCameraGranted(1)
    \/ \E size \in FrameSizes : loadedMetadata(size)
    \/ stopCamera
    \/ \E pxTop, pxBottom \in PixelValues : updateColors(pxTop, pxBottom)
    \/ \E hex \in {topColor.hex, bottomColor.hex} : copyToClipboard(hex)
    \/ \E i \in 1..MaxPendingCopies : copyToClipboardResolved(i)
    \/ \E i \in 1..MaxPendingCopies : copyToClipboardRejected(i)
    \/ copiedTimeout
    \/ Advance(CopiedWindow \div 4)

SpecCopy == Init /\ [][NextCopy]_vars

\* SpecCopy on an event loop that keeps running: time passes while no
\* timeout is due, and a due timeout's callback is run
SpecCopyFair ==
    /\ SpecCopy
    /\ WF_vars(Advance(CopiedWindow \div 4))
    /\ WF_vars(copiedTimeout)

\* the first sample of one capture session, the pixel under both points
\* drawn from HexInputs: rgbToHex is applied to each of these inputs
NextHex ==
    \/ (granted = 0 /\ pendingStarts = 0 /\ startCamera)
    \/ startCameraGranted(1)
    \/ \E size \in FrameSizes : loadedMetadata(size)
    \/ (lastRead = NoRead /\ \E px \in HexInputs : updateColors(px, px))
    \/ Advance(SamplingPeriod)

SpecHex == Init /\ [][NextHex]_vars

\* one capture session of a one-track stream with dragging and sampling, the
\* canvas giving a 2d context or none, in steps of a sampling period
NextSample ==
    \/ (granted = 0 /\ pendingStarts = 0 /\ startCamera)
    \/ startCameraGranted(1)
    \/ \E size \in FrameSizes : loadedMetadata(size)
    \/ stopCamera
    \/ \E point \in {"top", "bottom"} : handleMouseDown(point)
    \/ \E pos \in PointerPositions : handleMouseMove(pos[1], pos[2])
    \/ handleMouseUp
    \/ \E pxTop, pxBottom \in PixelValues : updateColors(pxTop, pxBottom)
    \/ updateColorsNoContext
    \/ Advance(SamplingPeriod)

SpecSample == Init /\ [][NextSample]_vars

\* one capture session of a one-track stream with dragging, sampling and one
\* copy at a time, in steps of a quarter of the confirmation window
NextStop ==
    \/ (granted = 0 /\ pendingStarts = 0 /\ startCamera)
    \/ startCameraGranted(1)
    \/ \E size \in FrameSizes : loadedMetadata(size)
    \/ stopCamera
    \/ \E point \in {"top", "bottom"} : handleMouseDown(point)
    \/ \E pos \in PointerPositions : handleMouseMove(pos[1], pos[2])
    \/ handleMouseUp
    \/ \E pxTop, pxBottom \in PixelValues : updateColors(pxTop, pxBottom)
    \/ (pendingCopies = <<>> /\ copyTimers = <<>>
          /\ \E hex \in {topColor.hex, bottomColor.hex} : copyToClipboard(hex))
    \/ copyToClipboardResolved(1)
    \/ copiedTimeout
    \/ Advance(CopiedWindow \div 4)

SpecStop == Init /\ [][NextStop]_vars

(* ------------------------------- claims ------------------------------- *)

\* C1: every stream that was granted and still has a running track is the
\* one held in streamRef, so at most one live stream exists.
C1_NoLeakedStream ==
    \A s \in Streams : running[s] # {} => streamRef = s

\* C2: while capture is stopped (from stopCamera until a start succeeds) no
\* step changes topColor or bottomColor.
C2_NoColorUpdateAfterStop ==
    [][~isActive => (topColor' = topColor /\ bottomColor' = bottomColor)]_vars

\* capture was stopped after a tick had sampled a colour
C2_StoppedAfterSampling ==
    /\ lastToast = "Camera Stopped"
    /\ ~isActive
    /\ ~interval.armed
    /\ topColor # BlackColor

\* C3: while the 2 s window of the most recent successful copy is open, the
\* copied flag is set to the hex value of that copy.
C3_FlagLastsItsWindow ==
    (copyTimers # <<>> /\ copyTimers[Len(copyTimers)].remaining > 0)
        => copiedColor = copyTimers[Len(copyTimers)].hex

\* C4: the pixel coordinates passed to getImageData lie inside the frame.
C4_ReadsInsideFrame ==
    lastRead # NoRead =>
        \A xy \in {lastRead.top, lastRead.bottom} :
            /\ 0 <= xy[1] /\ xy[1] < canvasWidth
            /\ 0 <= xy[2] /\ xy[2] < canvasHeight

\* the percentage p lies in [0, 100]
InPercentRange(p) == p.den > 0 /\ 0 <= p.num /\ p.num <= 100 * p.den

\* C5: the x and y percentages of both sampling points lie in [0, 100].
C5_PointsClamped ==
    \A point \in {topPoint, bottomPoint} :
        InPercentRange(point.x) /\ InPercentRange(point.y)

\* the top point was dragged with the pointer left of and above the box, the
\* bottom point with the pointer right of it
C5_DraggedOutsideBothSides ==
    /\ topPoint = [x |-> Pct(0), y |-> Pct(0)]
    /\ bottomPoint.x = Pct(100)

\* C6: after the component is unmounted no stream has a running track and no
\* sampling interval is set.
C6_ReleasedOnTeardown ==
    ~mounted => ((\A s \in Streams : running[s] = {}) /\ ~interval.armed)

\* C7: a drag step that moves a point leaves the pending sampling tick as it
\* is: it stays scheduled and due at the same time.
C7_MoveLeavesTickPending ==
    [][(interval.armed /\ (topPoint' # topPoint \/ bottomPoint' # bottomPoint))
          => (interval'.armed /\ interval'.remaining = interval.remaining)]_vars

\* C8: a camera request that fails emits the error notification and changes
\* nothing else: not isActive, streamRef, the interval, the points, the colours.
C8_FailedStartChangesNothing ==
    [][(pendingStarts' < pendingStarts /\ granted' = granted)
          => /\ lastToast' = "Camera Error"
             /\ UNCHANGED <<mounted, isActive, streamRef, running, srcObject,
                            videoVars, canvasVars, colorVars, pointVars,
                            isDragging, interval, copyVars>>]_vars

\* a camera request failed and capture is not active
C8_FailedWhileInactive ==
    /\ lastToast = "Camera Error"
    /\ ~isActive
    /\ streamRef = NoStream
    /\ ~interval.armed

\* C9: a step that is not a grant and changes isActive or streamRef (that is
\* stopCamera) leaves streamRef null, isActive false, and the stream it held
\* without a running track.
C9_StopReleasesStream ==
    [][(granted' = granted /\ (isActive' # isActive \/ streamRef' # streamRef))
          => /\ streamRef' = NoStream
             /\ ~isActive'
             /\ streamRef # NoStream => running'[streamRef] = {}]_vars

\* capture was stopped and the stream that was held has no running track
C9_Stopped ==
    /\ lastToast = "Camera Stopped"
    /\ ~isActive
    /\ streamRef = NoStream
    /\ granted > 0
    /\ \A s \in 1..granted : running[s] = {}

\* C10: the drag state changes only from Idle to DraggingX or from DraggingX
\* to Idle, never from one point to the other.
C10_DragTransitions ==
    [][isDragging' # isDragging => (isDragging = None \/ isDragging' = None)]_vars

\* the percentages a and b are the same number
SamePct(a, b) == a.num * b.den = b.num * a.den

\* the percentage of client within [origin, origin + extent], held to [0, 100]
ClampedPct(client, origin, extent) ==
    IF client <= origin THEN Pct(0)
    ELSE IF client >= origin + extent THEN Pct(100)
    ELSE [num |-> (client - origin) * 100, den |-> extent]

\* point is the clamped percentage position of some pointer position
IsClampedPosition(point) ==
    \E pos \in PointerPositions :
        /\ SamePct(point.x, ClampedPct(pos[1], Rect.left, Rect.width))
        /\ SamePct(point.y, ClampedPct(pos[2], Rect.top, Rect.height))

\* C11: a step that changes a point happens only while dragging; it sets the
\* dragged point to the clamped percentage position of the pointer and leaves
\* the other point, both colours, isActive, isDragging and copiedColor
\* unchanged.  While Idle no step changes a point.
C11_MoveSetsOnlyDraggedPoint ==
    [][(topPoint' # topPoint \/ bottomPoint' # bottomPoint)
          => /\ isDragging # None
             /\ isDragging = "top" => (IsClampedPosition(topPoint') /\ bottomPoint' = bottomPoint)
             /\ isDragging = "bottom" => (IsClampedPosition(bottomPoint') /\ topPoint' = topPoint)
             /\ UNCHANGED <<topColor, bottomColor, isActive, isDragging, copiedColor>>]_vars

\* the top point was dragged right of the box while the bottom point kept its
\* initial position
C11_TopDragged ==
    /\ isDragging = "top"
    /\ topPoint.x = Pct(100)
    /\ bottomPoint = [x |-> Pct(50), y |-> Pct(80)]

\* C12: a step in which a clipboard write is rejected changes nothing but the
\* set of pending writes: copiedColor keeps its value, no 2-second timeout is
\* scheduled and no notification is emitted.
C12_RejectedCopyChangesNothing ==
    [][(Len(pendingCopies') < Len(pendingCopies) /\ lastWriteText' = "rejected")
          => UNCHANGED <<copiedColor, copyTimers, lastToast, isActive,
                         colorVars, pointVars, isDragging, interval>>]_vars

\* a write was rejected while the flag of an earlier copy was still showing
C12_RejectedWhileFlagged ==
    /\ lastWriteText = "rejected"
    /\ copiedColor # NoColor
    /\ copyTimers # <<>>
    /\ lastToast = "Copied!"

\* color is what getColorAtPoint gives at pixel xy of a w x h frame
IsSampleAt(color, xy, w, h) ==
    \E px \in PixelValues : color = getColorAtPoint(xy[1], xy[2], w, h, px)

\* C13: the two colours are replaced together: in every step that changes
\* topColor or bottomColor, both hold a sample read in that step, topColor at
\* the top pixel and bottomColor at the bottom pixel of the frame just drawn.
C13_ColorsReplacedTogether ==
    [][(topColor' # topColor \/ bottomColor' # bottomColor)
          => /\ IsSampleAt(topColor', lastRead'.top, canvasWidth', canvasHeight')
             /\ IsSampleAt(bottomColor', lastRead'.bottom, canvasWidth', canvasHeight')]_vars

\* a tick has stored two different samples
C13_BothSampled ==
    /\ topColor.rgb = [r |-> 255, g |-> 5, b |-> 16]
    /\ bottomColor.rgb = [r |-> 18, g |-> 171, b |-> 0]
    /\ lastRead # NoRead

\* the sixteen lowercase hex digits, by value
LowerHex == <<"0", "1", "2", "3", "4", "5", "6", "7", "8", "9",
              "a", "b", "c", "d", "e", "f">>

\* the zero-padded two-digit lowercase hex value of the byte v
TwoHexDigits(v) == <<LowerHex[(v \div 16) + 1], LowerHex[(v % 16) + 1]>>

\* hex is '#' followed by the two-digit hex values of r, g and b in that order
IsHexOf(hex, rgb) ==
    hex = <<"#">> \o TwoHexDigits(rgb.r) \o TwoHexDigits(rgb.g) \o TwoHexDigits(rgb.b)

\* C14: for channels r, g, b in 0..255, rgbToHex gives '#' followed by exactly
\* six lowercase hex digits: the zero-padded two-digit hex values of r, g and
\* b, in that order.  Stated on the samples rgbToHex has produced.
C14_HexOfChannels ==
    /\ IsHexOf(topColor.hex, topColor.rgb)
    /\ IsHexOf(bottomColor.hex, bottomColor.rgb)
    /\ Len(topColor.hex) = 7
    /\ \A i \in 2..7 : \E d \in 1..16 : topColor.hex[i] = LowerHex[d]

\* rgbToHex was applied to (255, 5, 16): 255 -> "ff", 5 -> "05"
C14_PaddedAndFull ==
    /\ lastRead # NoRead
    /\ topColor.rgb = [r |-> 255, g |-> 5, b |-> 16]
    /\ topColor.hex = <<"#", "f", "f", "0", "5", "1", "0">>

\* k is the floor of (p / 100) * extent: k <= (p / 100) * extent < k + 1
IsFloorOfPct(k, p, extent) ==
    /\ k * 100 * p.den <= p.num * extent
    /\ p.num * extent < (k + 1) * 100 * p.den

\* xy is the pixel of the w x h frame at the percentage position point
IsFlooredPixel(xy, point, w, h) ==
    /\ IsFloorOfPct(xy[1], point.x, w)
    /\ IsFloorOfPct(xy[2], point.y, h)

\* C15: a tick samples the point at percentage (px, py) of a W x H frame at
\* pixel (floor(px / 100 * W), floor(py / 100 * H)); (50, 20) on 1280 x 720
\* is read at (640, 144).
C15_SampledAtFloor ==
    [][lastRead' # lastRead
          => /\ IsFlooredPixel(lastRead'.top, interval.topPoint, videoWidth, videoHeight)
             /\ IsFlooredPixel(lastRead'.bottom, interval.bottomPoint, videoWidth, videoHeight)
             /\ (/\ interval.topPoint = [x |-> Pct(50), y |-> Pct(20)]
                 /\ videoWidth = 1280
                 /\ videoHeight = 720) => lastRead'.top = <<640, 144>>]_vars

\* (50, 20) was read at (640, 144) and a bottom point at x = 33.33..% at
\* column 426 (426.67 floored) of the 1280 x 720 frame
C15_FlooredRead ==
    /\ lastRead.top = <<640, 144>>
    /\ lastRead.bottom # <<>>
    /\ lastRead.bottom[1] = 426
    /\ videoWidth = 1280

\* the pixels of the current frame under the current positions of the points
CurrentPixels ==
    [top |-> <<ToPixel(topPoint.x, videoWidth), ToPixel(topPoint.y, videoHeight)>>,
     bottom |-> <<ToPixel(bottomPoint.x, videoWidth), ToPixel(bottomPoint.y, videoHeight)>>]

C17_NoSampleWithoutDimensions ==
    [][(videoWidth = 0 \/ videoHeight = 0)
          => UNCHANGED <<topColor, bottomColor, lastRead, canvasWidth, canvasHeight>>]_vars

\* a tick is due in a second session whose video has no dimensions yet, the
\* colours still holding the samples of the first session
C17_TickDueWithoutDimensions ==
    /\ isActive
    /\ interval.armed
    /\ interval.remaining = 0
    /\ videoWidth = 0
    /\ topColor # BlackColor

\* C18: a step that stops capture (isActive true before, false after) leaves
\* topColor, bottomColor, both points and copiedColor as they were.
C18_StopKeepsDisplayState ==
    [][(isActive /\ ~isActive')
          => UNCHANGED <<topColor, bottomColor, topPoint, bottomPoint, copiedColor>>]_vars

\* capture was stopped with sampled colours, a dragged top point and the
\* flag of a copy showing
C18_StoppedWithDisplayState ==
    /\ ~isActive
    /\ lastToast = "Camera Stopped"
    /\ topColor # BlackColor
    /\ topPoint # [x |-> Pct(50), y |-> Pct(20)]
    /\ copiedColor # NoColor

\* C19: whenever isActive is true, streamRef holds a stream and the tracks of
\* that stream have not been stopped.
C19_ActiveHoldsLiveStream ==
    isActive => (streamRef # NoStream /\ running[streamRef] # {})

\* capture is active on a second stream after the first one was stopped,
\* with another request still awaiting its answer
C19_ActiveAgain ==
    /\ isActive
    /\ streamRef = 2
    /\ running[1] = {}
    /\ pendingStarts > 0

C21_FlagClears ==
    /\ [](copiedColor # NoColor => copyTimers # <<>>)
    /\ [][(copiedColor = NoColor /\ copiedColor' # NoColor)
             => /\ lastWriteText' = "fulfilled"
                /\ Len(pendingCopies') < Len(pendingCopies)
                /\ Len(copyTimers') = Len(copyTimers) + 1]_vars
    /\ (copiedColor # NoColor ~> copiedColor = NoColor)

\* the flag of a second copy is showing while the timeout of the first copy
\* is due and that of the second is pending
C21_FlaggedWithTwoTimeouts ==
    /\ copiedColor # NoColor
    /\ Len(copyTimers) = 2
    /\ copyTimers[1].remaining = 0
    /\ copyTimers[2].remaining > 0

\* the hex string of color is rgbToHex of its own channels, each a byte
SelfConsistent(color) ==
    /\ color.rgb.r \in Bytes
    /\ color.rgb.g \in Bytes
    /\ color.rgb.b \in Bytes
    /\ color.hex = rgbToHex(color.rgb.r, color.rgb.g, color.rgb.b)

\* C22: in every reachable state topColor and bottomColor are self-consistent:
\* the hex string equals rgbToHex of the sample's own r, g, b, each an
\* integer in 0..255; initially, after a fallback and after every tick.
C22_SamplesSelfConsistent ==
    /\ SelfConsistent(topColor)
    /\ SelfConsistent(bottomColor)

\* both colours hold the fallback although the last pixels read, at the
\* initial positions of the points, lie inside the frame
C22_FallbackStored ==
    /\ isActive
    /\ topColor = FallbackColor
    /\ bottomColor = FallbackColor
    /\ lastRead = [top |-> <<640, 144>>, bottom |-> <<640, 576>>]

==========================================================================
